---- MODULE Spec2Model ----
(***************************************************************************)
(* Random Roll plugin (src/main.py): RandomRollPlugin and main().          *)
(*                                                                         *)
(* Text.  A Python str is a sequence of pieces.  Text that the program     *)
(* looks into (a query, a token, the custom_labels setting, a numeral) is  *)
(* one piece per character; a string literal of the source is one piece.   *)
(* Concatenation (\o) models f-strings and "+".                            *)
(*                                                                         *)
(* Values.  A JSON / Python value is a record [t, s, n]: t the type name,  *)
(* s the text of a str (or the items of a list), n the value of an int.    *)
(*                                                                         *)
(* Randomness.  A generator is an operator yielding the SET of outcomes    *)
(* it can return, one per possible draw; an action picks one of them.      *)
(***************************************************************************)
EXTENDS Integers, Sequences, FiniteSets, TLC

VARIABLES settings, reqSettings, call, outcome, stdout, pc

vars == <<settings, reqSettings, call, outcome, stdout, pc>>

(***************************************************************************)
(* Bounds of the model and constants of the program.                       *)
(***************************************************************************)
\* Longest query, in tokens, that the model feeds to handle_query.
MaxTokens == 3
\* roll_range is applied to integers within MaxOffset of 0 and of the cap.
MaxOffset == 2
\* random.randint(a, b) is enumerated in full when b - a <= MaxDrawSpan and
\* sampled (both ends, their neighbours, the middle) when the span is wider.
MaxDrawSpan == 6
\* main.py:184  if abs(end - start) > 10_000_000
MaxRangeSize == 10000000

(***************************************************************************)
(* Python values.                                                          *)
(***************************************************************************)
PyStr(s) == [t |-> "str", s |-> s, n |-> 0]
PyInt(n) == [t |-> "int", s |-> <<>>, n |-> n]
PyNone == [t |-> "NoneType", s |-> <<>>, n |-> 0]
PyList(items) == [t |-> "list", s |-> items, n |-> 0]

\* bool(v): the truth value Python gives `if v` / `not v`.
Truthy(v) ==
    CASE v.t = "str" -> v.s # <<>>
      [] v.t = "int" -> v.n # 0
      [] v.t = "list" -> v.s # <<>>
      [] OTHER -> FALSE

(***************************************************************************)
(* str methods: strip(), split(), join(), str(int), int(str).              *)
(***************************************************************************)
Whitespace == {" ", "\t"}

DigitVal ==
    "0" :> 0 @@ "1" :> 1 @@ "2" :> 2 @@ "3" :> 3 @@ "4" :> 4 @@
    "5" :> 5 @@ "6" :> 6 @@ "7" :> 7 @@ "8" :> 8 @@ "9" :> 9

DigitChar == <<"0", "1", "2", "3", "4", "5", "6", "7", "8", "9">>

IsDigit(c) == c \in DOMAIN DigitVal

RECURSIVE LStrip(_)
LStrip(s) ==
    IF s # <<>> /\ Head(s) \in Whitespace THEN LStrip(Tail(s)) ELSE s

RECURSIVE RStrip(_)
RStrip(s) ==
    IF s # <<>> /\ s[Len(s)] \in Whitespace
    THEN RStrip(SubSeq(s, 1, Len(s) - 1))
    ELSE s

\* str.strip()
Strip(s) == RStrip(LStrip(s))

\* str.split() with no separator: the maximal runs of non-whitespace.
RECURSIVE SplitFrom(_, _, _)
SplitFrom(s, cur, acc) ==
    IF s = <<>>
    THEN IF cur = <<>> THEN acc ELSE Append(acc, cur)
    ELSE IF Head(s) \in Whitespace
         THEN SplitFrom(Tail(s), <<>>, IF cur = <<>> THEN acc ELSE Append(acc, cur))
         ELSE SplitFrom(Tail(s), Append(cur, Head(s)), acc)

\* Mutant: str.split(" "), which cuts at every single space, keeps the empty
\* pieces between two spaces and does not cut at a tab.
RECURSIVE SplitAtSpaces(_, _, _)
SplitAtSpaces(s, cur, acc) ==
    IF s = <<>> THEN Append(acc, cur)
    ELSE IF Head(s) = " " THEN SplitAtSpaces(Tail(s), <<>>, Append(acc, cur))
    ELSE SplitAtSpaces(Tail(s), Append(cur, Head(s)), acc)

SplitOnSpace(s) == SplitAtSpaces(s, <<>>, <<>>)

Split(s) == SplitFrom(s, <<>>, <<>>)

\* sep.join(items)
RECURSIVE Join(_, _)
Join(items, sep) ==
    IF items = <<>> THEN <<>>
    ELSE IF Len(items) = 1 THEN items[1]
    ELSE items[1] \o sep \o Join(Tail(items), sep)

\* str(n) of an int: a minus sign for a negative, then the decimal digits.
RECURSIVE NatToStr(_)
NatToStr(n) ==
    IF n < 10 THEN <<DigitChar[n + 1]>>
    ELSE Append(NatToStr(n \div 10), DigitChar[(n % 10) + 1])

IntToStr(n) == IF n < 0 THEN <<"-">> \o NatToStr(0 - n) ELSE NatToStr(n)

\* The grammar int(str) accepts after the sign: digits, with single
\* underscores allowed between two digits (PEP 515).
IntBodyOk(b) ==
    /\ b # <<>>
    /\ \A i \in 1..Len(b) :
        \/ IsDigit(b[i])
        \/ /\ b[i] = "_"
           /\ 1 < i /\ i < Len(b)
           /\ IsDigit(b[i - 1]) /\ IsDigit(b[i + 1])

RECURSIVE DigitsValue(_, _)
DigitsValue(b, acc) ==
    IF b = <<>> THEN acc
    ELSE IF Head(b) = "_" THEN DigitsValue(Tail(b), acc)
    ELSE DigitsValue(Tail(b), 10 * acc + DigitVal[Head(b)])

\* int(s) for a str s: [ok |-> FALSE] stands for ValueError.  Surrounding
\* whitespace is stripped, one optional sign is taken, the rest is the body.
IntOfStr(s) ==
    LET t == Strip(s)
        signed == t # <<>> /\ Head(t) \in {"+", "-"}
        body == IF signed THEN Tail(t) ELSE t
    IN IF IntBodyOk(body)
       THEN [ok |-> TRUE,
             n |-> IF signed /\ Head(t) = "-"
                   THEN 0 - DigitsValue(body, 0)
                   ELSE DigitsValue(body, 0)]
       ELSE [ok |-> FALSE, n |-> 0]

\* int(v) for any value: [ok, n, exc]; exc is the exception raised.
IntOf(v) ==
    CASE v.t = "int" -> [ok |-> TRUE, n |-> v.n, exc |-> ""]
      [] v.t = "str" ->
            LET r == IntOfStr(v.s)
            IN [ok |-> r.ok, n |-> r.n, exc |-> IF r.ok THEN "" ELSE "ValueError"]
      [] OTHER -> [ok |-> FALSE, n |-> 0, exc |-> "TypeError"]

Min(a, b) == IF a <= b THEN a ELSE b
Max(a, b) == IF a >= b THEN a ELSE b
Abs(a) == IF a < 0 THEN 0 - a ELSE a

(***************************************************************************)
(* The settings mapping held by the plugin (self.settings).                *)
(***************************************************************************)
EmptyMap == [k \in {} |-> PyNone]

\* A truthy JSON value that is no object (a list, say) sent as "settings":
\* update_settings stores it, and every self.settings.get then raises
\* AttributeError.  It is kept apart from the mappings by its marker key.
NonDict == ("__class__" :> PyList(<<"x">>))

IsDict(m) == "__class__" \notin DOMAIN m

NoDictAttr == <<"'list' object has no attribute 'get'">>

\* dict.get(key, default)
Get(m, key, default) == IF key \in DOMAIN m THEN m[key] ELSE default

\* `if settings:` in update_settings: an empty dict is falsy.
DictTruthy(m) == DOMAIN m # {}

\* str(v) as an f-string interpolates it.
Fmt(v) ==
    CASE v.t = "str" -> v.s
      [] v.t = "int" -> IntToStr(v.n)
      [] v.t = "list" -> <<"[">> \o Join([i \in 1..Len(v.s) |-> <<"'", v.s[i], "'">>], <<", ">>) \o <<"]">>
      [] OTHER -> <<"None">>

(***************************************************************************)
(* What a call of the plugin yields: a returned list, or an exception.     *)
(* kind, draws and gen are history: which branch built the entry (roll,    *)
(* prompt or usage), how many times the random generator was called, and   *)
(* which generator handle_query dispatched to, with its arguments.         *)
(***************************************************************************)
NoGen == [fn |-> "", from_val |-> 0, to_val |-> 0, labels |-> <<>>]
GenYesNo == [fn |-> "roll_yes_no", from_val |-> 0, to_val |-> 0, labels |-> <<>>]
GenCustomLabel == [fn |-> "roll_custom_label", from_val |-> 0, to_val |-> 0, labels |-> <<>>]
GenFromArgs(labels) == [fn |-> "roll_custom_label_from_args", from_val |-> 0, to_val |-> 0, labels |-> labels]
GenRange(a, b) == [fn |-> "roll_range", from_val |-> a, to_val |-> b, labels |-> <<>>]

Return(list, kind, draws, gen) ==
    [tag |-> "return", value |-> list, exc |-> "", msg |-> <<>>,
     kind |-> kind, draws |-> draws, gen |-> gen]

Raise(exc, msg, gen) ==
    [tag |-> "raise", value |-> <<>>, exc |-> exc, msg |-> msg,
     kind |-> "none", draws |-> 0, gen |-> gen]

NoOutcome == Return(<<>>, "none", 0, NoGen)

\* The result dictionaries of lines 87-95 / 100-104.
Actionable(title, subtitle) ==
    [Title |-> title, SubTitle |-> subtitle, IcoPath |-> "icon.png",
     JsonRPCAction |-> [method |-> "copy_to_clipboard", parameters |-> <<title>>]]

Prompt(title, subtitle) ==
    [Title |-> title, SubTitle |-> subtitle, IcoPath |-> "icon.png"]

(***************************************************************************)
(* RandomRollPlugin                                                        *)
(***************************************************************************)
\* __init__(settings=None): self.settings = {}
InitSettings == EmptyMap

\* update_settings: the new mapping replaces the old one only when truthy.
update_settings(old, new) == IF DictTruthy(new) THEN new ELSE old

\* Mutant: every mode but the click-to-roll one counts as instant.
check_roll_mode_not_click(m) ==
    Get(m, "Roll Mode", PyStr(<<"Instant">>)) # PyStr(<<"ClickToRoll">>)

\* check_roll_mode (the caller has checked that settings is a dict)
check_roll_mode(m) == Get(m, "Roll Mode", PyStr(<<"Instant">>)) = PyStr(<<"Instant">>)

UsageLines ==
    <<"* roll: Random based on default type (yes/no, number, or custom label)",
      "\n", "* roll N: Random number 1 to N",
      "\n", "* roll A B: Random number A to B",
      "\n", "* roll X Y Z...: Random choice from custom labels">>

\* show_usage(error_msg); <<>> stands for error_msg=None (and for "").
show_usage(error_msg) ==
    LET subtitle == IF error_msg # <<>>
                    THEN error_msg \o <<"\n\n">> \o UsageLines
                    ELSE UsageLines
    IN <<Prompt(PyStr(<<"Random Roll Usage">>), subtitle)>>

\* random.choice(seq)
Choice(seq) == {seq[i] : i \in 1..Len(seq)}

\* random.randint(a, b): every integer of a..b; {} stands for the
\* ValueError of an empty range.  A span wider than MaxDrawSpan is sampled.
RandInt(a, b) ==
    IF b - a <= MaxDrawSpan THEN a..b
    ELSE {a, a + 1, a + ((b - a) \div 2), b - 1, b}

roll_yes_no(m) ==
    IF ~IsDict(m) THEN {Raise("AttributeError", NoDictAttr, GenYesNo)}
    ELSE
    LET yes_label == Get(m, "yes_label", PyStr(<<"Yes">>))
        no_label == Get(m, "no_label", PyStr(<<"No">>))
    IN IF check_roll_mode(m)
       THEN {Return(<<Actionable(IF result THEN yes_label ELSE no_label,
                                 <<"Random yes/no answer">>)>>,
                    "roll", 1, GenYesNo) : result \in Choice(<<TRUE, FALSE>>)}
       ELSE {Return(<<Prompt(PyStr(<<"Roll Yes/No">>),
                             <<"Press Enter to randomly choose between '">>
                             \o Fmt(yes_label) \o <<"' and '">> \o Fmt(no_label)
                             \o <<"'">>)>>,
                    "prompt", 0, GenYesNo)}

NoLabelsConfigured == <<"No custom labels configured. Please set custom labels in settings.">>

\* The shared body of both custom-label generators (lines 120-144, 151-175).
LabelOutcomes(m, labels, gen) ==
    IF ~IsDict(m) THEN {Raise("AttributeError", NoDictAttr, gen)}
    ELSE IF check_roll_mode(m)
    THEN IF labels = <<>>
         THEN {Raise("IndexError", <<"Cannot choose from an empty sequence">>, gen)}
         ELSE
         {Return(<<Actionable(PyStr(result),
                              <<"Random choice from: ">> \o Join(labels, <<", ">>))>>,
                 "roll", 1, gen) : result \in Choice(labels)}
    ELSE {Return(<<Prompt(PyStr(<<"Roll Custom Label">>),
                          <<"Press Enter to randomly choose from: ">>
                          \o Join(labels, <<", ">>))>>,
                 "prompt", 0, gen)}

roll_custom_label(m) ==
    IF ~IsDict(m) THEN {Raise("AttributeError", NoDictAttr, GenCustomLabel)}
    ELSE
    LET custom_labels_str == Get(m, "custom_labels", PyStr(<<>>))
    IN IF ~Truthy(custom_labels_str)
       THEN {Return(show_usage(NoLabelsConfigured), "usage", 0, GenCustomLabel)}
       ELSE IF custom_labels_str.t # "str"
       THEN {Raise("AttributeError",
                   <<"'", custom_labels_str.t, "' object has no attribute 'strip'">>,
                   GenCustomLabel)}
       ELSE IF Strip(custom_labels_str.s) = <<>>
       THEN {Return(show_usage(NoLabelsConfigured), "usage", 0, GenCustomLabel)}
       ELSE LET labels == Split(Strip(custom_labels_str.s))
            IN IF labels = <<>>
               THEN {Return(show_usage(NoLabelsConfigured), "usage", 0, GenCustomLabel)}
               ELSE LabelOutcomes(m, labels, GenCustomLabel)

\* Mutant: the guard of lines 148-149 is missing.
roll_custom_label_from_args_unguarded(m, labels) ==
    LabelOutcomes(m, labels, GenFromArgs(labels))

roll_custom_label_from_args(m, labels) ==
    IF labels = <<>>
    THEN {Return(show_usage(<<"No labels provided.">>), "usage", 0, GenFromArgs(labels))}
    ELSE LabelOutcomes(m, labels, GenFromArgs(labels))

\* Mutant: the bounds are used in the order given.
RangeBoundsAsGiven(from_val, to_val) == <<from_val, to_val>>

\* Lines 180-181: start = min(from_val, to_val); end = max(from_val, to_val)
RangeBounds(from_val, to_val) == <<Min(from_val, to_val), Max(from_val, to_val)>>

\* Mutant: the cap is put on the upper bound instead of on the span.
RangeTooLargeByEnd(start, end) == Abs(end) > MaxRangeSize

\* Line 184: abs(end - start) > 10_000_000
RangeTooLarge(start, end) == Abs(end - start) > MaxRangeSize

roll_range(m, from_val, to_val) ==
    LET start == RangeBounds(from_val, to_val)[1]
        end == RangeBounds(from_val, to_val)[2]
        gen == GenRange(from_val, to_val)
    IN IF RangeTooLarge(start, end)
       THEN {Return(show_usage(<<"Range too large. Maximum range size is 10,000,000.">>),
                    "usage", 0, gen)}
       ELSE IF ~IsDict(m) THEN {Raise("AttributeError", NoDictAttr, gen)}
       ELSE IF check_roll_mode(m)
       THEN IF RandInt(start, end) = {}
            THEN {Return(show_usage(<<"Invalid range values.">>), "usage", 1, gen)}
            ELSE {Return(<<Actionable(PyStr(IntToStr(result)),
                                      <<"Random number between ">> \o IntToStr(start)
                                      \o <<" and ">> \o IntToStr(end))>>,
                         "roll", 1, gen) : result \in RandInt(start, end)}
       ELSE {Return(<<Prompt(PyStr(<<"Roll Number">>),
                             <<"Press Enter to randomly generate a number between ">>
                             \o IntToStr(start) \o <<" and ">> \o IntToStr(end))>>,
                    "prompt", 0, gen)}

\* Lines 42-47: both settings are converted inside one try; a ValueError or
\* TypeError from either replaces BOTH by the defaults 1 and 6.
DefaultBounds(m) ==
    LET f == IntOf(Get(m, "default_from", PyInt(1)))
        t == IntOf(Get(m, "default_to", PyInt(6)))
    IN IF f.ok /\ t.ok THEN <<f.n, t.n>> ELSE <<1, 6>>

\* Lines 33-48: no arguments, the default roll type decides.
DispatchDefault(m) ==
    IF ~IsDict(m) THEN {Raise("AttributeError", NoDictAttr, NoGen)}
    ELSE LET roll_type == Get(m, "Default Roll Type", PyStr(<<"Number">>))
         IN IF roll_type = PyStr(<<"Yes/No">>) THEN roll_yes_no(m)
            ELSE IF roll_type = PyStr(<<"CustomLabel">>) THEN roll_custom_label(m)
            ELSE roll_range(m, DefaultBounds(m)[1], DefaultBounds(m)[2])

\* Lines 50-57: one argument, roll from 1 to N or fall back to a label.
DispatchOne(m, parts) ==
    LET to_val == IntOfStr(parts[1])
    IN IF to_val.ok THEN roll_range(m, 1, to_val.n)
       ELSE roll_custom_label_from_args(m, parts)

\* Lines 59-67: two arguments, roll from A to B or fall back to labels.
DispatchTwo(m, parts) ==
    LET a_val == IntOfStr(parts[1])
        b_val == IntOfStr(parts[2])
    IN IF a_val.ok /\ b_val.ok THEN roll_range(m, a_val.n, b_val.n)
       ELSE roll_custom_label_from_args(m, parts)

\* Mutant: more than two arguments are a usage error.
DispatchManyUsage(m, parts) ==
    {Return(show_usage(<<"Too many arguments.">>), "usage", 0, NoGen)}

\* Lines 69-70: more arguments are custom labels.
DispatchMany(m, parts) == roll_custom_label_from_args(m, parts)

\* handle_query(query); query is the value main passes (parameters[0]).
handle_query(m, query) ==
    IF query.t # "str"
    THEN {Raise("AttributeError",
                <<"'", query.t, "' object has no attribute 'strip'">>, NoGen)}
    ELSE
    LET parts == Split(Strip(query.s))
    IN IF parts = <<>> THEN DispatchDefault(m)
       ELSE IF Len(parts) = 1 THEN DispatchOne(m, parts)
       ELSE IF Len(parts) = 2 THEN DispatchTwo(m, parts)
       ELSE DispatchMany(m, parts)

(***************************************************************************)
(* main(): one process, one request in sys.argv[1].                        *)
(*                                                                         *)
(* argv is [kind, msg, obj]: kind "absent" (len(sys.argv) = 1),            *)
(* "undecodable" (json.loads raises JSONDecodeError with message msg),     *)
(* "nonobject" (valid JSON that is no object) or "object", obj then being  *)
(* the decoded request: a mapping with some of the keys method (text),     *)
(* parameters ([t, items, n]: a list of values, or some other value) and   *)
(* settings.                                                               *)
(***************************************************************************)
ListParams(items) == [t |-> "list", items |-> items, n |-> 0]
IntParams(n) == [t |-> "int", items |-> <<>>, n |-> n]

\* What main leaves behind: the lines printed, how the call ended, the
\* plugin's settings and what handle_query yielded.
Exited(lines, m, o) == [stdout |-> lines, exit |-> "normal", settings |-> m, outcome |-> o]

Escaped(exc, m, o) == [stdout |-> <<>>, exit |-> exc, settings |-> m, outcome |-> o]

\* Lines 263-264: except json.JSONDecodeError
main_except_decode(msg) ==
    Exited(<<[error |-> <<"Invalid JSON request: ">> \o msg]>>, InitSettings, NoOutcome)

\* Mutant: no handler for other exceptions, which leave main.
main_except_escapes(m, o) == Escaped(o.exc, m, o)

\* Lines 265-266: except Exception as e: print(json.dumps({"error": str(e)}))
main_except(m, o) == Exited(<<[error |-> o.msg]>>, m, o)

\* Line 254: query = parameters[0] if parameters else ""
FirstParameter(parameters) ==
    CASE parameters.t = "list" ->
            IF parameters.items = <<>> THEN Return(<<PyStr(<<>>)>>, "none", 0, NoGen)
            ELSE Return(<<parameters.items[1]>>, "none", 0, NoGen)
      [] parameters.n = 0 -> Return(<<PyStr(<<>>)>>, "none", 0, NoGen)
      [] OTHER -> Raise("TypeError", <<"'int' object is not subscriptable">>, NoGen)

main(argv) ==
    CASE argv.kind = "absent" ->
            {Exited(<<[error |-> <<"No JSON-RPC request provided">>]>>, InitSettings, NoOutcome)}
      [] argv.kind = "undecodable" -> {main_except_decode(argv.msg)}
      [] argv.kind = "nonobject" ->
            {main_except(InitSettings,
                         Raise("AttributeError", <<"'list' object has no attribute 'get'">>, NoGen))}
      [] OTHER ->
            LET method == Get(argv.obj, "method", <<>>)
                parameters == Get(argv.obj, "parameters", ListParams(<<>>))
                m == update_settings(InitSettings, Get(argv.obj, "settings", EmptyMap))
            IN IF method = <<"query">>
               THEN LET query == FirstParameter(parameters)
                    IN IF query.tag = "raise" THEN {main_except(m, query)}
                       ELSE {IF o.tag = "raise" THEN main_except(m, o)
                             ELSE Exited(<<[result |-> o.value]>>, m, o)
                             : o \in handle_query(m, query.value[1])}
               ELSE {Exited(<<[error |-> <<"Unknown method: ">> \o method]>>, m, NoOutcome)}

(***************************************************************************)
(* Inputs.                                                                 *)
(***************************************************************************)
\* Tokens of multi-token queries: two integers, an underscore numeral, a word.
TokenPool == {<<"5">>, <<"-", "2">>, <<"1", "_", "0">>, <<"a">>}

\* Further tokens, met as one-token queries.
ExtraTokens ==
    {<<"+", "3">>, <<"1", ".", "5">>, <<"2", "0">>, <<"_", "5">>, <<"5", "_">>,
     <<"-">>, <<"a", "b", "c">>, <<"0", "7">>, <<"1", "_", "_", "0">>}

TokenSeqs(n) == UNION {[1..k -> TokenPool] : k \in 0..n}

Queries ==
    {Join(ts, <<" ">>) : ts \in TokenSeqs(MaxTokens)}
    \cup ExtraTokens
    \cup {<<" ", "\t">>}
    \cup {<<" ">> \o t \o <<"\t", " ">> \o u \o <<" ">> : t \in TokenPool, u \in ExtraTokens}

\* Queries that main is sent.
MainQueries ==
    {<<>>, <<" ">>, <<"5">>, <<"1", "_", "0">>, <<"5", " ", "-", "2">>, <<"a", " ", "5">>,
     <<"a", " ", "a", " ", "5">>}

\* Integers roll_range is applied to: around 0 and around the cap.
RangeInputs ==
    ((0 - MaxOffset)..MaxOffset)
    \cup ((MaxRangeSize - MaxOffset)..(MaxRangeSize + MaxOffset))

\* Label lists roll_custom_label_from_args is applied to.
LabelLists == {<<>>, <<<<"a">>>>, <<<<"a">>, <<"5">>>>, <<<<"x">>, <<"y">>, <<"x">>>>}

Lit(text) == PyStr(<<text>>)

Chars(seq) == PyStr(seq)

\* Settings mappings, without the "Roll Mode" key.
Topics ==
    {EmptyMap,
     "Default Roll Type" :> Lit("Yes/No"),
     "Default Roll Type" :> Lit("Yes/No") @@ "yes_label" :> Lit("Yep") @@ "no_label" :> Lit("Nope"),
     "Default Roll Type" :> Lit("Yes/No") @@ "no_label" :> Lit("Random Roll Usage"),
     "Default Roll Type" :> Lit("CustomLabel"),
     "Default Roll Type" :> Lit("CustomLabel") @@ "custom_labels" :> Chars(<<>>),
     "Default Roll Type" :> Lit("CustomLabel") @@ "custom_labels" :> Chars(<<" ", "\t">>),
     "Default Roll Type" :> Lit("CustomLabel") @@ "custom_labels" :> Chars(<<"a", " ", "b">>),
     "Default Roll Type" :> Lit("CustomLabel")
        @@ "custom_labels" :> Chars(<<" ", "x", " ", " ", "y", "\t", "5", " ">>),
     "Default Roll Type" :> Lit("CustomLabel") @@ "custom_labels" :> PyList(<<"a", "b">>),
     "Default Roll Type" :> Lit("CustomLabel") @@ "custom_labels" :> PyNone,
     "Default Roll Type" :> Lit("Number") @@ "default_from" :> PyInt(3),
     "default_to" :> PyInt(4),
     "default_from" :> PyInt(5) @@ "default_to" :> PyInt(2),
     "default_from" :> Chars(<<"2">>) @@ "default_to" :> PyInt(4),
     "default_from" :> Chars(<<"a", "b", "c">>) @@ "default_to" :> PyInt(4),
     "default_from" :> PyInt(2) @@ "default_to" :> PyNone,
     "default_from" :> PyInt(0) @@ "default_to" :> PyInt(MaxRangeSize + 1),
     "Default Roll Type" :> Lit("Dice") @@ "default_to" :> PyInt(3)}

SettingsUniverse ==
    Topics
    \cup {"Roll Mode" :> Lit("ClickToRoll") @@ t : t \in Topics}
    \cup {"Roll Mode" :> Lit("Instant"), "Roll Mode" :> Lit("instant")}

Parameters ==
    {ListParams(<<PyStr(q)>>) : q \in MainQueries}
    \cup {ListParams(<<>>), ListParams(<<PyInt(5)>>), ListParams(<<PyStr(<<"5">>), PyStr(<<"a">>)>>),
          IntParams(5), IntParams(0)}

Requests ==
    {"method" :> meth @@ "parameters" :> params @@ "settings" :> m :
        meth \in {<<"query">>, <<"ping">>}, params \in Parameters,
        m \in SettingsUniverse \cup {NonDict}}
    \cup {"method" :> <<"query">> @@ "parameters" :> params : params \in Parameters}
    \cup {"parameters" :> params @@ "settings" :> m :
            params \in {ListParams(<<PyStr(<<"5">>)>>)}, m \in {EmptyMap, NonDict}}
    \cup {"method" :> <<"query">> @@ "settings" :> m : m \in SettingsUniverse}

NoRequest == EmptyMap

Argvs ==
    {[kind |-> "absent", msg |-> <<>>, obj |-> NoRequest],
     [kind |-> "undecodable", msg |-> <<"Expecting value: line 1 column 1 (char 0)">>,
      obj |-> NoRequest],
     [kind |-> "nonobject", msg |-> <<>>, obj |-> NoRequest]}
    \cup {[kind |-> "object", msg |-> <<>>, obj |-> r] : r \in Requests}

(***************************************************************************)
(* The state machine.                                                      *)
(*   settings     self.settings of the plugin object in use                *)
(*   reqSettings  the mapping last handed to update_settings               *)
(*   call         the operation last applied and its arguments             *)
(*   outcome      what it yielded                                          *)
(*   stdout       the lines main printed                                   *)
(*   pc           "idle": a plugin awaits a request; "ready": it has been  *)
(*                handed the request's settings; "done": a call returned   *)
(*                and its result is with the caller; "exited": main ended  *)
(***************************************************************************)
NoArgv == [kind |-> "none", msg |-> <<>>, obj |-> NoRequest]

Call(op, query, from_val, to_val, labels, argv) ==
    [op |-> op, query |-> query, from_val |-> from_val, to_val |-> to_val,
     labels |-> labels, argv |-> argv, exit |-> "normal"]

NoCall == Call("", PyStr(<<>>), 0, 0, <<>>, NoArgv)

Init ==
    /\ settings = InitSettings
    /\ reqSettings = EmptyMap
    /\ call = NoCall
    /\ outcome = NoOutcome
    /\ stdout = <<>>
    /\ pc = "idle"

\* plugin.update_settings(m)
UpdateSettings ==
    /\ pc = "idle"
    /\ \E m \in SettingsUniverse :
        /\ settings' = update_settings(settings, m)
        /\ reqSettings' = m
    /\ pc' = "ready"
    /\ UNCHANGED <<call, outcome, stdout>>

\* plugin.handle_query(q)
HandleQuery ==
    /\ pc = "ready"
    /\ \E q \in Queries : \E o \in handle_query(settings, PyStr(q)) :
        /\ call' = Call("handle_query", PyStr(q), 0, 0, <<>>, NoArgv)
        /\ outcome' = o
    /\ pc' = "done"
    /\ UNCHANGED <<settings, reqSettings, stdout>>

\* plugin.roll_range(a, b)
RollRange ==
    /\ pc = "ready"
    /\ \E a \in RangeInputs, b \in RangeInputs : \E o \in roll_range(settings, a, b) :
        /\ call' = Call("roll_range", PyStr(<<>>), a, b, <<>>, NoArgv)
        /\ outcome' = o
    /\ pc' = "done"
    /\ UNCHANGED <<settings, reqSettings, stdout>>

\* plugin.roll_custom_label_from_args(labels)
RollCustomLabelFromArgs ==
    /\ pc = "ready"
    /\ \E labels \in LabelLists : \E o \in roll_custom_label_from_args(settings, labels) :
        /\ call' = Call("roll_custom_label_from_args", PyStr(<<>>), 0, 0, labels, NoArgv)
        /\ outcome' = o
    /\ pc' = "done"
    /\ UNCHANGED <<settings, reqSettings, stdout>>

\* The caller takes the result; the plugin object lives on.
Discard ==
    /\ pc = "done"
    /\ call' = NoCall
    /\ outcome' = NoOutcome
    /\ pc' = "idle"
    /\ UNCHANGED <<settings, reqSettings, stdout>>

\* A process runs main() on argv: a plugin is constructed, the request's
\* settings are handed to it, the response is printed.
Main ==
    /\ pc = "idle"
    /\ settings = InitSettings /\ reqSettings = EmptyMap
    /\ \E argv \in Argvs : \E r \in main(argv) :
        /\ call' = [Call("main", PyStr(<<>>), 0, 0, <<>>, argv) EXCEPT !.exit = r.exit]
        /\ settings' = r.settings
        /\ reqSettings' = Get(argv.obj, "settings", EmptyMap)
        /\ outcome' = r.outcome
        /\ stdout' = r.stdout
    /\ pc' = "exited"

\* The process is gone; the next one starts from scratch.
NewProcess ==
    /\ pc = "exited"
    /\ settings' = InitSettings
    /\ reqSettings' = EmptyMap
    /\ call' = NoCall
    /\ outcome' = NoOutcome
    /\ stdout' = <<>>
    /\ pc' = "idle"

Next ==
    \/ UpdateSettings
    \/ HandleQuery
    \/ RollRange
    \/ RollCustomLabelFromArgs
    \/ Discard
    \/ Main
    \/ NewProcess

Spec == Init /\ [][Next]_vars

(***************************************************************************)
(* Vocabulary of the properties, stated apart from the code's operators.   *)
(***************************************************************************)
\* The roll mode is Instant: the key is unset, or set to "Instant".
InstantMode(m) == "Roll Mode" \notin DOMAIN m \/ m["Roll Mode"] = PyStr(<<"Instant">>)

HasAction(e) == "JsonRPCAction" \in DOMAIN e

Returned == outcome.tag = "return" /\ Len(outcome.value) = 1

Entry == outcome.value[1]

\* A usage outcome: the fixed title, nothing to act on, built by show_usage.
UsageOutcome ==
    /\ Returned
    /\ outcome.kind = "usage"
    /\ Entry.Title = PyStr(<<"Random Roll Usage">>)
    /\ ~HasAction(Entry)

\* An optional sign followed by one or more decimal digits, nothing else.
StrictInteger(tok) ==
    LET body == IF tok # <<>> /\ Head(tok) \in {"+", "-"} THEN Tail(tok) ELSE tok
    IN body # <<>> /\ \A i \in 1..Len(body) : IsDigit(body[i])

\* The title is the decimal string of an integer of lo..hi.
DecimalWithin(title, lo, hi) ==
    /\ title.t = "str"
    /\ StrictInteger(title.s)
    /\ IntOfStr(title.s).n >= lo /\ IntOfStr(title.s).n <= hi
    /\ IntToStr(IntOfStr(title.s).n) = title.s

RangeCall == outcome.gen.fn = "roll_range" /\ IsDict(settings)

RangeLo == IF outcome.gen.from_val <= outcome.gen.to_val THEN outcome.gen.from_val ELSE outcome.gen.to_val

RangeHi == IF outcome.gen.from_val <= outcome.gen.to_val THEN outcome.gen.to_val ELSE outcome.gen.from_val

RangeSpan == RangeHi - RangeLo

(***************************************************************************)
(* C1  roll_range(a, b) with |a - b| <= 10,000,000 returns, for every      *)
(* draw, one entry whose Title is the decimal string of an integer of      *)
(* [min(a,b), max(a,b)].  As stated (C1_RangeRollInBounds_AnyMode) it      *)
(* fails in click-to-roll mode, where the entry is the prompt "Roll        *)
(* Number"; it holds in Instant mode (C1_RangeRollInBounds).               *)
(***************************************************************************)
C1_RangeRollInBounds_AnyMode ==
    (RangeCall /\ RangeSpan <= MaxRangeSize)
        => (Returned /\ DecimalWithin(Entry.Title, RangeLo, RangeHi))

\* C1 (amended): in Instant roll mode, roll_range(a, b) with
\* |a - b| <= 10,000,000 returns one entry whose Title is the decimal string
\* of an integer r with min(a,b) <= r <= max(a,b), for every draw.
C1_RangeRollInBounds ==
    (RangeCall /\ RangeSpan <= MaxRangeSize /\ InstantMode(settings))
        => (Returned /\ DecimalWithin(Entry.Title, RangeLo, RangeHi))

\* roll_range(2, -2) in Instant mode drew -1.
C1_Witness ==
    /\ call.op = "roll_range" /\ call.from_val = 2 /\ call.to_val = 0 - 2
    /\ InstantMode(settings)
    /\ Returned /\ Entry.Title = PyStr(<<"-", "1">>)

(***************************************************************************)
(* C2  roll_range(a, b) with |a - b| > 10,000,000 returns a usage outcome  *)
(* in either roll mode: never a number, never a prompt, and no draw made.  *)
(***************************************************************************)
C2_OversizedRangeIsUsage ==
    (outcome.gen.fn = "roll_range" /\ RangeSpan > MaxRangeSize)
        => (UsageOutcome /\ outcome.draws = 0)

\* roll_range(-1, 10,000,000) in click-to-roll mode gave the usage outcome.
C2_Witness ==
    /\ call.op = "roll_range" /\ call.from_val = 0 - 1 /\ call.to_val = MaxRangeSize
    /\ IsDict(settings) /\ ~InstantMode(settings)
    /\ UsageOutcome

(***************************************************************************)
(* C3  A custom-label draw on a non-empty label list returns an entry      *)
(* whose Title is a member of that list, and never empty.                  *)
(***************************************************************************)
ConfiguredLabels == Get(settings, "custom_labels", PyStr(<<>>))

\* The label list the generator was given: the explicit list, or the
\* whitespace-separated words of the custom_labels setting.
InputLabels ==
    IF outcome.gen.fn = "roll_custom_label_from_args" THEN outcome.gen.labels
    ELSE Split(ConfiguredLabels.s)

LabelCall ==
    /\ IsDict(settings)
    /\ \/ outcome.gen.fn = "roll_custom_label_from_args"
       \/ outcome.gen.fn = "roll_custom_label" /\ ConfiguredLabels.t = "str"

TitleIsOneOf(labels) ==
    /\ Returned
    /\ Entry.Title.t = "str"
    /\ Entry.Title.s # <<>>
    /\ \E i \in 1..Len(labels) : labels[i] = Entry.Title.s

\* C3 as stated: it fails in click-to-roll mode, where the entry is the
\* prompt "Roll Custom Label".
C3_LabelDrawIsMember_AnyMode ==
    (LabelCall /\ InputLabels # <<>>) => TitleIsOneOf(InputLabels)

\* C3 (amended): in Instant roll mode, a custom-label draw on a non-empty
\* label list returns an entry whose Title is a member of exactly that list
\* and is never empty.
C3_LabelDrawIsMember ==
    (LabelCall /\ InputLabels # <<>> /\ InstantMode(settings))
        => TitleIsOneOf(InputLabels)

\* handle_query("a 5 a") in Instant mode chose "5".
C3_Witness ==
    /\ call.op = "handle_query" /\ call.query = PyStr(<<"a", " ", "5", " ", "a">>)
    /\ InstantMode(settings)
    /\ outcome.gen.fn = "roll_custom_label_from_args"
    /\ Returned /\ Entry.Title = PyStr(<<"5">>)

(***************************************************************************)
(* C4  A custom-label draw on an empty label set (custom_labels unset,     *)
(* empty or all whitespace; or an empty explicit list) returns a usage     *)
(* outcome in a normal result response: no draw, no exception, no          *)
(* protocol-level error.                                                   *)
(***************************************************************************)
AllWhitespace(text) == \A i \in 1..Len(text) : text[i] \in Whitespace

EmptyLabelCall ==
    \/ outcome.gen.fn = "roll_custom_label_from_args" /\ outcome.gen.labels = <<>>
    \/ /\ outcome.gen.fn = "roll_custom_label"
       /\ IsDict(settings)
       /\ \/ "custom_labels" \notin DOMAIN settings
          \/ /\ settings["custom_labels"].t = "str"
             /\ AllWhitespace(settings["custom_labels"].s)

C4_EmptyLabelsIsUsage ==
    EmptyLabelCall
        => /\ UsageOutcome
           /\ outcome.draws = 0
           /\ call.op = "main"
                => (call.exit = "normal" /\ stdout = <<[result |-> outcome.value]>>)

\* main was sent the empty query with an all-whitespace custom_labels and
\* answered with a result holding the usage outcome.
C4_Witness ==
    /\ pc = "exited" /\ call.op = "main"
    /\ outcome.gen.fn = "roll_custom_label"
    /\ "custom_labels" \in DOMAIN settings
    /\ settings["custom_labels"] = PyStr(<<" ", "\t">>)
    /\ UsageOutcome
    /\ Len(stdout) = 1 /\ DOMAIN stdout[1] = {"result"}

(***************************************************************************)
(* C5  handle_query picks the generator from the whitespace-split tokens   *)
(* and the settings as the reference classifier below does: no token, by   *)
(* the default roll type; one token that parses as an integer n, the       *)
(* range (1, n), else that token as a label; two tokens that both parse,   *)
(* the range they give, else both as labels; three or more, all tokens as  *)
(* labels, integers or not.  "Parses" is Python's int(); default_from and  *)
(* default_to are taken unset or holding integers.                         *)
(***************************************************************************)
RefDefault(m, key, default) == IF key \in DOMAIN m THEN IntOf(m[key]).n ELSE default

RefRollType(m) ==
    IF "Default Roll Type" \in DOMAIN m THEN m["Default Roll Type"] ELSE PyStr(<<"Number">>)

Classify(m, tokens) ==
    CASE Len(tokens) = 0 ->
            (CASE RefRollType(m) = PyStr(<<"Yes/No">>) -> GenYesNo
               [] RefRollType(m) = PyStr(<<"CustomLabel">>) -> GenCustomLabel
               [] OTHER -> GenRange(RefDefault(m, "default_from", 1),
                                    RefDefault(m, "default_to", 6)))
      [] Len(tokens) = 1 ->
            IF IntOfStr(tokens[1]).ok THEN GenRange(1, IntOfStr(tokens[1]).n)
            ELSE GenFromArgs(tokens)
      [] Len(tokens) = 2 ->
            IF IntOfStr(tokens[1]).ok /\ IntOfStr(tokens[2]).ok
            THEN GenRange(IntOfStr(tokens[1]).n, IntOfStr(tokens[2]).n)
            ELSE GenFromArgs(tokens)
      [] OTHER -> GenFromArgs(tokens)

DefaultsAreIntegers(m) ==
    \A k \in {"default_from", "default_to"} : k \in DOMAIN m => IntOf(m[k]).ok

C6_IntegerIffSignAndDigits ==
    (pc = "done" /\ call.op = "handle_query")
        => LET parts == Split(call.query.s)
           IN /\ outcome.tag = "return"
              /\ Len(parts) = 1
                    => (outcome.gen.fn = "roll_range" <=> StrictInteger(parts[1]))
              /\ Len(parts) = 2
                    => (outcome.gen.fn = "roll_range"
                            <=> (StrictInteger(parts[1]) /\ StrictInteger(parts[2])))
              /\ Len(parts) \in {1, 2} /\ outcome.gen.fn # "roll_range"
                    => outcome.gen = GenFromArgs(parts)

(***************************************************************************)
(* C7  In every entry handle_query returns, JsonRPCAction is present       *)
(* exactly when the roll mode is Instant and the entry is a roll outcome,  *)
(* not a usage outcome; when present its method is copy_to_clipboard and   *)
(* its one parameter is the entry's Title.                                 *)
(***************************************************************************)
C7_ActionIffInstantRoll ==
    (call.op \in {"handle_query", "main"} /\ IsDict(settings) /\ outcome.tag = "return")
        => \A i \in 1..Len(outcome.value) :
            LET e == outcome.value[i]
            IN /\ HasAction(e) <=> (InstantMode(settings) /\ outcome.kind # "usage")
               /\ HasAction(e)
                    => /\ e.JsonRPCAction.method = "copy_to_clipboard"
                       /\ e.JsonRPCAction.parameters = <<e.Title>>

\* An Instant yes/no roll whose no_label reads "Random Roll Usage": a roll
\* outcome all the same, and it carries the action.
C7_Witness ==
    /\ pc = "done" /\ call.op = "handle_query"
    /\ InstantMode(settings)
    /\ outcome.gen.fn = "roll_yes_no" /\ outcome.kind = "roll"
    /\ Returned /\ Entry.Title = PyStr(<<"Random Roll Usage">>)
    /\ HasAction(Entry)

(***************************************************************************)
(* C8  main ends normally after printing exactly one response, which has   *)
(* a result or an error and not both: an undecodable request, an unknown   *)
(* method (named in the message), a missing argument (the fixed message)   *)
(* and an internal failure each give an error; no exception leaves main.   *)
(***************************************************************************)
C8_MainPrintsOneResponse ==
    pc = "exited"
        => LET argv == call.argv
               method == Get(argv.obj, "method", <<>>)
           IN /\ call.exit = "normal"
              /\ Len(stdout) = 1
              /\ DOMAIN stdout[1] \in {{"result"}, {"error"}}
              /\ argv.kind = "absent"
                    => stdout[1] = [error |-> <<"No JSON-RPC request provided">>]
              /\ argv.kind \in {"undecodable", "nonobject"}
                    => DOMAIN stdout[1] = {"error"}
              /\ argv.kind = "object" /\ method # <<"query">>
                    => stdout[1] = [error |-> <<"Unknown method: ">> \o method]
              /\ outcome.tag = "raise" => DOMAIN stdout[1] = {"error"}
              /\ DOMAIN stdout[1] = {"result"}
                    => (argv.kind = "object" /\ method = <<"query">> /\ outcome.tag = "return")

\* handle_query raised AttributeError on a custom_labels that is a list,
\* and main printed an error response.
C8_Witness ==
    /\ pc = "exited"
    /\ outcome.tag = "raise" /\ outcome.exc = "AttributeError"
    /\ outcome.gen.fn = "roll_custom_label"
    /\ call.exit = "normal"
    /\ Len(stdout) = 1 /\ DOMAIN stdout[1] = {"error"}

(***************************************************************************)
(* C9  A settings value of the wrong type fails soft, key by key: the      *)
(* query still gets a normal result response, the built-in default stands  *)
(* in for that key only, and every well-typed key keeps its value.         *)
(***************************************************************************)
WellTyped(key, v) ==
    IF key \in {"default_from", "default_to"} THEN IntOf(v).ok ELSE v.t = "str"

\* The mapping with the ill-typed keys left to their defaults.
Repaired(m) == [k \in {k \in DOMAIN m : WellTyped(k, m[k])} |-> m[k]]

QueryRequest ==
    /\ pc = "exited"
    /\ call.argv.kind = "object"
    /\ Get(call.argv.obj, "method", <<>>) = <<"query">>
    /\ IsDict(reqSettings)
    /\ FirstParameter(Get(call.argv.obj, "parameters", ListParams(<<>>))).tag = "return"
    /\ FirstParameter(Get(call.argv.obj, "parameters", ListParams(<<>>))).value[1].t = "str"

RequestQuery == FirstParameter(Get(call.argv.obj, "parameters", ListParams(<<>>))).value[1]

C9_TypeMismatchFailsSoftPerKey ==
    QueryRequest
        => /\ call.exit = "normal"
           /\ Len(stdout) = 1
           /\ DOMAIN stdout[1] = {"result"}
           /\ outcome \in handle_query(Repaired(reqSettings), RequestQuery)

(***************************************************************************)
(* C10  No state crosses requests: the settings in effect for a request    *)
(* (update_settings(settings), then handle_query(query), on one plugin)    *)
(* are those of its own mapping alone, so an empty mapping is answered     *)
(* with the built-in defaults whatever earlier requests supplied.          *)
(***************************************************************************)
C10_NoCrossRequestState ==
    (pc = "done" /\ call.op = "handle_query")
        => outcome \in handle_query(reqSettings, call.query)

====
